---- MODULE Spec2Model ----
(***************************************************************************)
(* Model of app.py, a Streamlit script: one browser session, whose every   *)
(* user interaction (record, clear, press the button, reload) re-executes  *)
(* the script from its first line.  A script run is cut at its externally  *)
(* visible points (each st.* element it emits, the outbound request, the   *)
(* resumption of the awaited call).  `page` is the output of the run in    *)
(* progress or, when no run is in progress, of the last run.               *)
(***************************************************************************)
EXTENDS Integers, Sequences, FiniteSets, TLC

\* ------------------------------------------------------------------ bounds
MaxRecordings == 2
MaxPresses == 3

\* --------------------------------------------------------------- variables
VARIABLES
    secrets,      \* st.secrets: the set of keys configured for the process
    pc,           \* position of the script run; "idle" when no run is in progress
    dg_client,    \* module global dg_client exists in this run
    audio,        \* value of the st.audio_input widget (kept by the session)
    audio_bytes,  \* main(): local audio_bytes
    clicked,      \* value st.button returns in this run
    page,         \* elements emitted by this run, in order
    source,       \* transcribe_microphone_audio(): local source
    outcome,      \* how the awaited prerecorded() call resolved
    transcript,   \* main(): local transcript (return value of the coroutine)
    e,            \* the exception bound by `except Exception as e`
    requests,     \* log of outbound requests, oldest first
    inflight,     \* number of outbound requests not yet resolved
    nrec,         \* number of recordings completed so far
    presses       \* number of presses of the transcribe button so far

vars == <<secrets, pc, dg_client, audio, audio_bytes, clicked, page, source,
          outcome, transcript, e, requests, inflight, nrec, presses>>

\* ------------------------------------------------------------ Python values
None == [tag |-> "None"]
Str(s) == [tag |-> "str", s |-> s]
UploadedFile(n, d) == [tag |-> "UploadedFile", id |-> n, data |-> d]
Exc(c, m) == [tag |-> "exc", cls |-> c, msg |-> m]

\* Byte contents a recording can have (b"" included).
AudioData == {<< >>, <<82>>, <<26, 69>>}

\* Transcript strings the service can put in a response.
Transcripts == {"", "hello", "Hello, world."}

\* ------------------------------------------------------------ page elements
El(k, b) == [kind |-> k, body |-> b]

HasKind(k) == \E i \in 1..Len(page) : page[i].kind = k

Bodies(k) == {page[i].body : i \in {j \in 1..Len(page) : page[j].kind = k}}

Count(k) == Cardinality({i \in 1..Len(page) : page[i].kind = k})

Emit(els) == page' = page \o els

\* --------------------------------------------------- the transcription call
\* Options passed to prerecorded().
Options == [smart_format |-> TRUE, model |-> "nova-2", language |-> "en-US"]

Alt(t) == [transcript |-> t, confidence |-> 1]

\* A well-formed response: channel 0 carries alternatives t (first) and u,
\* channel 1 carries u only.
FullResponse(t, u) ==
    [results |-> [channels |-> << [alternatives |-> <<Alt(t), Alt(u)>>],
                                  [alternatives |-> <<Alt(u)>>] >>]]

\* Responses lacking one step of results -> channels[0] -> alternatives[0]
\* -> transcript.
MalformedResponses ==
    { [err_code |-> "Bad Request"],
      [results |-> [channels |-> << >>]],
      [results |-> [channels |-> << [alternatives |-> << >>] >>]],
      [results |-> [channels |-> << [alternatives |-> << [confidence |-> 1] >>] >>]] }

\* Exceptions the awaited call raises: transport error, timeout, 4xx, 5xx.
CallErrors ==
    { Exc("ClientConnectionError", "Cannot connect to host"),
      Exc("TimeoutError", ""),
      Exc("Exception", "DG: 400 Bad Request"),
      Exc("Exception", "DG: 401 Unauthorized"),
      Exc("Exception", "DG: 500 Internal Server Error") }

Returned(r) == [type |-> "ok", body |-> r]
Raised(x) == [type |-> "raise", exc |-> x]

Rejections == {Raised(x) : x \in CallErrors}
                  \cup {Returned(r) : r \in MalformedResponses}

Outcomes ==
    Rejections \cup {Returned(FullResponse(t, u)) : t \in Transcripts, u \in Transcripts}

\* Input constraint of the Transcription Client: the remote service takes a
\* non-empty AudioClip and rejects an empty one.
ServiceAccepts(buffer) == buffer # << >>

OutcomesFor(src) == IF ServiceAccepts(src.buffer) THEN Outcomes ELSE Rejections

\* Variant of Lookup that returns the last alternative of the channel instead of
\* alternatives[0].
Lookup_LastAlternative(r) ==
    IF "results" \notin DOMAIN r
    THEN Raised(Exc("KeyError", "'results'"))
    ELSE IF Len(r.results.channels) < 1
    THEN Raised(Exc("IndexError", "list index out of range"))
    ELSE IF Len(r.results.channels[1].alternatives) < 1
    THEN Raised(Exc("IndexError", "list index out of range"))
    ELSE LET alts == r.results.channels[1].alternatives IN
         IF "transcript" \notin DOMAIN alts[Len(alts)]
         THEN Raised(Exc("KeyError", "'transcript'"))
         ELSE Returned(Str(alts[Len(alts)].transcript))

\* response["results"]["channels"][0]["alternatives"][0]["transcript"]
\* (Python index 0 is index 1 here).
Lookup(r) ==
    IF "results" \notin DOMAIN r
    THEN Raised(Exc("KeyError", "'results'"))
    ELSE IF "channels" \notin DOMAIN r.results
    THEN Raised(Exc("KeyError", "'channels'"))
    ELSE IF Len(r.results.channels) < 1
    THEN Raised(Exc("IndexError", "list index out of range"))
    ELSE IF "alternatives" \notin DOMAIN r.results.channels[1]
    THEN Raised(Exc("KeyError", "'alternatives'"))
    ELSE IF Len(r.results.channels[1].alternatives) < 1
    THEN Raised(Exc("IndexError", "list index out of range"))
    ELSE IF "transcript" \notin DOMAIN r.results.channels[1].alternatives[1]
    THEN Raised(Exc("KeyError", "'transcript'"))
    ELSE Returned(Str(r.results.channels[1].alternatives[1].transcript))

\* Classes derived from Exception, which `except Exception` catches;
\* KeyboardInterrupt, SystemExit and CancelledError derive from BaseException only.
ExceptionSubclasses ==
    {"Exception", "ClientConnectionError", "TimeoutError", "KeyError",
     "IndexError", "AttributeError", "TypeError"}

\* Variant of Caught for a handler `except (KeyError, IndexError)`.
Caught_OnlyLookupErrors(x) == x.cls \in {"KeyError", "IndexError"}

Caught(x) == x.cls \in ExceptionSubclasses

\* Line 64: f"Error during transcription: {e}".
ErrorBanner(x) == "Error during transcription: " \o x.msg

\* Variant of Truthy for a test `if transcript is not None:`.
Truthy_IsNotNone(v) == v # None

\* Truth value of `if transcript:`.
Truthy(v) == v # None /\ v.s # ""

\* ------------------------------------------------------------------- state
Init ==
    /\ secrets \in {{}, {"DEEPGRAM_API_KEY"}}
    /\ pc = "secrets"
    /\ dg_client = FALSE
    /\ audio = None
    /\ audio_bytes = None
    /\ clicked = FALSE
    /\ page = << >>
    /\ source = None
    /\ outcome = None
    /\ transcript = None
    /\ e = None
    /\ requests = << >>
    /\ inflight = 0
    /\ nrec = 0
    /\ presses = 0

\* A script run starts: the module is executed again from its first line, with
\* an empty output and no module global or local bound yet.
Rerun(click) ==
    /\ pc' = "secrets"
    /\ clicked' = click
    /\ page' = << >>
    /\ dg_client' = FALSE
    /\ audio_bytes' = None
    /\ source' = None
    /\ outcome' = None
    /\ transcript' = None
    /\ e' = None

\* ------------------------------------------------------------ user actions
\* Variant of CanRecord for a call that does not block the script thread: the
\* record control takes a recording while a run is in progress.
CanRecord_NotBlocking == HasKind("audio_input") /\ pc \notin {"stopped", "crashed"}

\* Variant of CanPress for a call that does not block the script thread: the
\* button takes a press while a run is in progress.
CanPress_NotBlocking == HasKind("button") /\ pc \notin {"stopped", "crashed"}

\* The record control takes a recording when it is on the page and the single
\* script thread is not inside a run.
CanRecord == pc = "idle" /\ HasKind("audio_input")

\* The transcribe button takes a press when it is on the page and the single
\* script thread is not inside a run (a run blocks in asyncio.run until the
\* call resolves).
CanPress == pc = "idle" /\ HasKind("button")

\* The user completes a recording: the widget holds the new clip.
UserRecord ==
    /\ CanRecord
    /\ nrec < MaxRecordings
    /\ \E d \in AudioData : audio' = UploadedFile(nrec + 1, d)
    /\ nrec' = nrec + 1
    /\ Rerun(FALSE)
    /\ UNCHANGED <<secrets, requests, inflight, presses>>

\* The user deletes the recording: the widget holds nothing.
UserClear ==
    /\ CanRecord
    /\ audio # None
    /\ audio' = None
    /\ Rerun(FALSE)
    /\ UNCHANGED <<secrets, requests, inflight, nrec, presses>>

\* The user presses "Transcribe Recorded Audio".
UserPress ==
    /\ CanPress
    /\ presses < MaxPresses
    /\ presses' = presses + 1
    /\ Rerun(TRUE)
    /\ UNCHANGED <<secrets, audio, requests, inflight, nrec>>

\* The user reloads the page: a new session, whose widgets hold nothing.
UserReload ==
    /\ pc \in {"idle", "stopped"}
    /\ audio' = None
    /\ Rerun(FALSE)
    /\ UNCHANGED <<secrets, requests, inflight, nrec, presses>>

\* ------------------------------------------------------------- script steps
\* Variant of LoadSecrets without st.stop(): the error is shown and the script
\* goes on.
LoadSecrets_NoStop ==
    /\ pc = "secrets"
    /\ IF "DEEPGRAM_API_KEY" \in secrets
       THEN UNCHANGED page
       ELSE Emit(<<El("error", "Deepgram API Key not found.")>>)
    /\ pc' = "client"
    /\ UNCHANGED <<secrets, dg_client, audio, audio_bytes, clicked, source,
                   outcome, transcript, e, requests, inflight, nrec, presses>>

\* Lines 10-17: read the credential; without it show an error and st.stop().
LoadSecrets ==
    /\ pc = "secrets"
    /\ IF "DEEPGRAM_API_KEY" \in secrets
       THEN /\ pc' = "client"
            /\ UNCHANGED page
       ELSE /\ Emit(<<El("error", "Deepgram API Key not found.")>>)
            /\ pc' = "stopped"
    /\ UNCHANGED <<secrets, dg_client, audio, audio_bytes, clicked, source,
                   outcome, transcript, e, requests, inflight, nrec, presses>>

\* Line 21: dg_client = Deepgram(DEEPGRAM_API_KEY).
CreateClient ==
    /\ pc = "client"
    /\ dg_client' = TRUE
    /\ pc' = "main"
    /\ UNCHANGED <<secrets, audio, audio_bytes, clicked, page, source, outcome,
                   transcript, e, requests, inflight, nrec, presses>>

\* Lines 73-84: page header and the record control; audio_bytes is its value.
RenderHeader ==
    /\ pc = "main"
    /\ Emit(<<El("title", "Voice-to-Text Transcriber with Microphone Input"),
              El("audio_input", "Click 'Record' to start")>>)
    /\ audio_bytes' = audio
    /\ pc' = "check_audio"
    /\ UNCHANGED <<secrets, dg_client, audio, clicked, source, outcome,
                   transcript, e, requests, inflight, nrec, presses>>

\* Variant of AudioPresent for a script that renders the button unconditionally.
AudioPresent_Always == TRUE

\* Line 87: `if audio_bytes is not None`.
AudioPresent == audio_bytes # None

\* Lines 87-94 and 107-108: playback and the transcribe button when a clip is
\* held, else the "Ready to record" note.
CheckAudio ==
    /\ pc = "check_audio"
    /\ IF AudioPresent
       THEN /\ Emit(<<El("audio", "audio/webm"),
                      El("button", "Transcribe Recorded Audio")>>)
            /\ pc' = IF clicked THEN "spinner" ELSE "footer"
       ELSE /\ Emit(<<El("info", "Ready to record!")>>)
            /\ pc' = "footer"
    /\ UNCHANGED <<secrets, dg_client, audio, audio_bytes, clicked, source,
                   outcome, transcript, e, requests, inflight, nrec, presses>>

\* Variant of BuildSource that keeps the source built for the first request of
\* the process and sends it again.
BuildSource_FirstRequestBytes ==
    /\ pc = "spinner"
    /\ audio_bytes # None
    /\ source' = IF requests # << >>
                 THEN requests[1].source
                 ELSE [buffer |-> audio_bytes.data, mimetype |-> "audio/webm"]
    /\ Emit(<<El("spinner", "Transcribing your audio..."),
              El("info", "Sending audio to Deepgram for transcription...")>>)
    /\ pc' = "request"
    /\ UNCHANGED <<secrets, dg_client, audio, audio_bytes, clicked, outcome,
                   transcript, e, requests, inflight, nrec, presses>>

\* Lines 96-98 and 36-44: the spinner, the coroutine starts, builds source
\* from the clip's bytes and announces the request.
BuildSource ==
    /\ pc = "spinner"
    /\ IF audio_bytes = None
       THEN /\ Emit(<<El("spinner", "Transcribing your audio...")>>)
            /\ e' = Exc("AttributeError", "'NoneType' object has no attribute 'getvalue'")
            /\ pc' = "raised"
            /\ UNCHANGED source
       ELSE /\ source' = [buffer |-> audio_bytes.data, mimetype |-> "audio/webm"]
            /\ Emit(<<El("spinner", "Transcribing your audio..."),
                      El("info", "Sending audio to Deepgram for transcription...")>>)
            /\ pc' = "request"
            /\ UNCHANGED e
    /\ UNCHANGED <<secrets, dg_client, audio, audio_bytes, clicked, outcome,
                   transcript, requests, inflight, nrec, presses>>

\* Variant of SendRequest with a cache keyed by clip: a clip already sent is
\* not sent again.
SendRequest_Cached ==
    /\ pc = "request"
    /\ IF \E i \in 1..Len(requests) : requests[i].clip = audio_bytes.id
       THEN /\ pc' = "branch"
            /\ UNCHANGED <<requests, inflight>>
       ELSE /\ requests' = Append(requests,
                                  [source |-> source, options |-> Options,
                                   clip |-> audio_bytes.id])
            /\ inflight' = inflight + 1
            /\ pc' = "await"
    /\ UNCHANGED <<secrets, dg_client, audio, audio_bytes, clicked, page, source,
                   outcome, transcript, e, nrec, presses>>

\* Lines 49-56: the outbound call is issued and awaited.
SendRequest ==
    /\ pc = "request"
    /\ requests' = Append(requests,
                          [source |-> source, options |-> Options,
                           clip |-> audio_bytes.id])
    /\ inflight' = inflight + 1
    /\ pc' = "await"
    /\ UNCHANGED <<secrets, dg_client, audio, audio_bytes, clicked, page, source,
                   outcome, transcript, e, nrec, presses>>

\* The awaited call resolves: it returns a response or raises.
ServiceRespond ==
    /\ pc = "await"
    /\ \E o \in OutcomesFor(source) :
          /\ outcome' = o
          /\ IF o.type = "ok"
             THEN pc' = "extract" /\ UNCHANGED e
             ELSE pc' = "raised" /\ e' = o.exc
    /\ inflight' = inflight - 1
    /\ UNCHANGED <<secrets, dg_client, audio, audio_bytes, clicked, page, source,
                   transcript, requests, nrec, presses>>

\* Lines 59-60: take the transcript out of the response and return it.
Extract ==
    /\ pc = "extract"
    /\ IF Lookup(outcome.body).type = "ok"
       THEN /\ transcript' = Lookup(outcome.body).body
            /\ pc' = "branch"
            /\ UNCHANGED e
       ELSE /\ e' = Lookup(outcome.body).exc
            /\ pc' = "raised"
            /\ UNCHANGED transcript
    /\ UNCHANGED <<secrets, dg_client, audio, audio_bytes, clicked, page, source,
                   outcome, requests, inflight, nrec, presses>>

\* Variant of Except whose handler returns the error text instead of None.
Except_ReturnsMessage ==
    /\ pc = "raised"
    /\ IF Caught(e)
       THEN /\ Emit(<<El("error", ErrorBanner(e))>>)
            /\ transcript' = Str(ErrorBanner(e))
            /\ pc' = "branch"
       ELSE /\ pc' = "crashed"
            /\ UNCHANGED <<page, transcript>>
    /\ UNCHANGED <<secrets, dg_client, audio, audio_bytes, clicked, source,
                   outcome, e, requests, inflight, nrec, presses>>

\* Lines 62-65: `except Exception as e` shows the error and returns None; an
\* exception it does not catch leaves the coroutine, asyncio.run and main().
Except ==
    /\ pc = "raised"
    /\ IF Caught(e)
       THEN /\ Emit(<<El("error", ErrorBanner(e))>>)
            /\ transcript' = None
            /\ pc' = "branch"
       ELSE /\ pc' = "crashed"
            /\ UNCHANGED <<page, transcript>>
    /\ UNCHANGED <<secrets, dg_client, audio, audio_bytes, clicked, source,
                   outcome, e, requests, inflight, nrec, presses>>

\* Lines 100-106: success banner and transcript, or the warning.
Branch ==
    /\ pc = "branch"
    /\ IF Truthy(transcript)
       THEN Emit(<<El("success", "Transcription Complete!"),
                   El("subheader", "Your Transcript:"),
                   El("transcript", transcript.s)>>)
       ELSE Emit(<<El("warning", "Transcription failed or returned no text.")>>)
    /\ pc' = "footer"
    /\ UNCHANGED <<secrets, dg_client, audio, audio_bytes, clicked, source,
                   outcome, transcript, e, requests, inflight, nrec, presses>>

\* Lines 110-114: the footer; the run ends and the session waits for the user.
Footer ==
    /\ pc = "footer"
    /\ Emit(<<El("footer", "Built with Streamlit and Deepgram")>>)
    /\ pc' = "idle"
    /\ UNCHANGED <<secrets, dg_client, audio, audio_bytes, clicked, source,
                   outcome, transcript, e, requests, inflight, nrec, presses>>

\* ----------------------------------------------------------- specifications
ScriptStep ==
    \/ LoadSecrets
    \/ CreateClient
    \/ RenderHeader
    \/ CheckAudio
    \/ BuildSource
    \/ SendRequest
    \/ ServiceRespond
    \/ Extract
    \/ Except
    \/ Branch
    \/ Footer

UserStep ==
    \/ UserRecord
    \/ UserClear
    \/ UserPress
    \/ UserReload

Next == ScriptStep \/ UserStep

Spec == Init /\ [][Next]_vars

\* The script thread runs on and the awaited call resolves; the user is free
\* never to act.
FairSpec == Spec /\ WF_vars(ScriptStep)

\* ---------------------------------------------------------------- UI states
\* The states of the UI Shell, read off the page.
Transcribing == HasKind("spinner") /\ ~HasKind("success") /\ ~HasKind("warning")

TranscriptShown == HasKind("success") /\ HasKind("transcript") /\ ~HasKind("warning")

ErrorShown == HasKind("warning") /\ ~HasKind("success") /\ ~HasKind("transcript")

IdleNoAudio == pc = "idle" /\ HasKind("audio_input") /\ ~HasKind("button")

AudioReady == pc = "idle" /\ HasKind("button") /\ ~HasKind("spinner")

\* The run started by a press is past its result branch.
TranscribeDone == clicked /\ pc \in {"footer", "idle"}

\* The run is inside the transcription call or between it and the branch.
InCall == pc \in {"request", "await", "extract", "raised", "branch"}

\* The awaited call failed: it raised, or its response lacks a step of the path.
CallFailed ==
    /\ outcome # None
    /\ \/ outcome.type = "raise"
       \/ Lookup(outcome.body).type = "raise"

\* The awaited call returned a response carrying the whole path.
CallSucceeded ==
    /\ outcome # None
    /\ outcome.type = "ok"
    /\ {"results"} \subseteq DOMAIN outcome.body
    /\ Len(outcome.body.results.channels) >= 1
    /\ Len(outcome.body.results.channels[1].alternatives) >= 1
    /\ "transcript" \in DOMAIN outcome.body.results.channels[1].alternatives[1]

FirstTranscript == outcome.body.results.channels[1].alternatives[1].transcript

\* The description of the failure of the awaited call: str() of the exception.
FailureText ==
    IF outcome.type = "raise" THEN outcome.exc.msg ELSE Lookup(outcome.body).exc.msg

\* --------------------------------------------------------------------- C1
\* C1: with DEEPGRAM_API_KEY absent the script shows an error and stops before
\* the main interface: the record control and the transcribe button are never
\* on the page, dg_client is never created and no request is ever issued.
C1_HaltsWithoutCredential ==
    "DEEPGRAM_API_KEY" \notin secrets =>
        /\ ~HasKind("audio_input")
        /\ ~HasKind("button")
        /\ ~dg_client
        /\ requests = << >>
        /\ inflight = 0
        /\ pc \in {"secrets", "stopped"}
        /\ pc = "stopped" => HasKind("error")

C1_Witness ==
    /\ "DEEPGRAM_API_KEY" \notin secrets
    /\ pc = "stopped"
    /\ HasKind("error")

\* --------------------------------------------------------------------- C2
\* C2: whenever the service call fails (it raises, or its response lacks a step
\* of the path) the coroutine returns None after an error banner carrying the
\* description, no exception leaves it, the run ends in error-shown and the
\* record control is then available again.
C2_FailureBecomesErrorShown ==
    /\ pc # "crashed"
    /\ CallFailed /\ pc \in {"branch", "footer", "idle"} =>
          /\ transcript = None
          /\ Bodies("error") = {"Error during transcription: " \o FailureText}
    /\ CallFailed /\ pc \in {"footer", "idle"} => ErrorShown
    /\ CallFailed /\ pc = "idle" => CanRecord

C2_Witness ==
    /\ CallFailed
    /\ outcome.type = "ok"
    /\ pc = "idle"
    /\ ErrorShown
    /\ CanRecord

\* --------------------------------------------------------------------- C3
\* C3: while the widget holds no clip the transcribe button is not on the page,
\* no press is accepted and no run is inside the transcription call; every
\* request in the log was sent for a recording that had been completed.
C3_NoAudioNoTranscribe ==
    /\ audio = None =>
          /\ ~HasKind("button")
          /\ ~CanPress
          /\ ~InCall
          /\ pc # "spinner"
          /\ inflight = 0
    /\ \A i \in 1..Len(requests) : requests[i].clip \in 1..nrec

C3_Witness ==
    /\ audio = None
    /\ IdleNoAudio
    /\ nrec > 0
    /\ requests # << >>

\* --------------------------------------------------------------------- C4
\* C4: every press issues exactly one request: the log holds one request per
\* press, save the press whose run has not reached the call yet; a run at rest
\* has issued as many requests as there were presses.
C4_OneRequestPerPress ==
    /\ Len(requests) + (IF clicked /\ pc \in {"secrets", "client", "main",
                                             "check_audio", "spinner", "request"}
                        THEN 1 ELSE 0) = presses
    /\ pc = "idle" => Len(requests) = presses

C4_Witness ==
    /\ pc = "idle"
    /\ Len(requests) = 3
    /\ presses = 3
    /\ requests[1].clip = requests[2].clip
    /\ requests[2].clip = requests[3].clip
    /\ ErrorShown

\* --------------------------------------------------------------------- C5
\* C5 (as stated): for a non-empty clip, a call that returns a well-formed
\* response yields a non-empty transcript, shown verbatim in transcript-shown.
C5_Original ==
    TranscribeDone /\ CallSucceeded /\ source.buffer # << >> =>
        /\ FirstTranscript # ""
        /\ TranscriptShown
        /\ Bodies("transcript") = {FirstTranscript}

\* C5 (amended): for a non-empty clip, a call that returns a well-formed
\* response whose first transcript is non-empty has it shown verbatim in
\* transcript-shown; when that transcript is empty the run ends in error-shown.
C5_NonEmptyTranscriptShownVerbatim ==
    TranscribeDone /\ CallSucceeded /\ source.buffer # << >> =>
        IF FirstTranscript # ""
        THEN /\ TranscriptShown
             /\ Bodies("transcript") = {FirstTranscript}
        ELSE /\ ErrorShown
             /\ Bodies("transcript") = {}

C5_Witness ==
    /\ TranscribeDone
    /\ pc = "idle"
    /\ CallSucceeded
    /\ source.buffer # << >>
    /\ FirstTranscript = "Hello, world."
    /\ outcome.body.results.channels[1].alternatives[2].transcript = "hello"
    /\ TranscriptShown
    /\ Bodies("transcript") = {"Hello, world."}

C7_OutcomeByReturnValue ==
    TranscribeDone =>
        LET nonEmpty == transcript.tag = "str" /\ transcript.s # "" IN
        /\ (HasKind("success") /\ HasKind("transcript")) <=> nonEmpty
        /\ HasKind("warning") <=> ~nonEmpty
        /\ Count("success") + Count("warning") = 1
        /\ nonEmpty => Bodies("transcript") = {transcript.s}

C7_Witness ==
    /\ TranscribeDone
    /\ transcript = Str("")
    /\ HasKind("warning")
    /\ ~HasKind("success")

C10_NewRecordingReplaces ==
    /\ (pc \in {"request", "await", "extract", "raised", "branch"} \/ TranscribeDone) =>
          /\ audio # None
          /\ source.buffer = audio.data
    /\ (pc \in {"await", "extract", "raised", "branch"} \/ TranscribeDone) =>
          /\ requests[Len(requests)].clip = audio.id
          /\ requests[Len(requests)].source = source
    /\ HasKind("transcript") =>
          /\ audio # None
          /\ requests[Len(requests)].clip = audio.id
          /\ requests[Len(requests)].source.buffer = audio.data
    /\ (~clicked /\ pc = "idle" /\ audio # None) =>
          /\ AudioReady
          /\ ~HasKind("transcript")
          /\ ~HasKind("success")
          /\ ~HasKind("warning")
          /\ ~HasKind("error")

C10_Witness ==
    /\ AudioReady
    /\ ~clicked
    /\ audio # None
    /\ audio.id = 2
    /\ requests # << >>
    /\ requests[Len(requests)].clip = 1
    /\ requests[Len(requests)].source.buffer # audio.data

====
